---- MODULE Spec2Model ----
(***************************************************************************)
(* Model of stl/scraper/airbnb_scraper.py:                                 *)
(*   AirbnbSearchScraper    the paginated, deduplicating search crawl      *)
(*   AirbnbCalendarScraper  the calendar / pricing refresh                 *)
(* Collaborators (Explore, Pdp, Reviews, Calendar, the persistence, the    *)
(* existence probe's HTTP request) answer nondeterministically.            *)
(***************************************************************************)
EXTENDS Integers, Sequences, FiniteSets, TLC

(***************************************************************************)
(* Dates.  A date object is the number of days since 2021-01-01; a         *)
(* calendar key is the string strftime('%Y-%m-%d') makes of it, held as    *)
(* the number YYYYMMDD, whose numeric order is the lexicographic order of  *)
(* the zero-padded string.  The years 2021..2023 have no leap day.         *)
(***************************************************************************)
DaysBeforeMonth == <<0, 31, 59, 90, 120, 151, 181, 212, 243, 273, 304, 334, 365>>

MonthOf(doy) == CHOOSE m \in 1..12 : DaysBeforeMonth[m] <= doy /\ doy < DaysBeforeMonth[m + 1]

Strftime(date) ==
    LET y   == 2021 + (date \div 365)
        doy == date % 365
        m   == MonthOf(doy)
    IN  y * 10000 + m * 100 + (doy - DaysBeforeMonth[m] + 1)

Strptime(dt) ==
    LET y == dt \div 10000
        m == (dt \div 100) % 100
        d == dt % 100
    IN  (y - 2021) * 365 + DaysBeforeMonth[m] + (d - 1)

(***************************************************************************)
(* Bounds of the calendars the calendar fetch returns.  A calendar is      *)
(* drawn as at most MaxSegments segments laid end to end from 2021-01-01:  *)
(* booked days, available days, or days missing from the calendar.         *)
(* Neighbouring booked segments make one longer booked range.              *)
(***************************************************************************)
MaxSegments == 3

FlowSegments == 1

SegmentChoices ==
    {[kind |-> "booked", len |-> n] : n \in {1, 40, 50, 51, 62, 63}}
        \cup {[kind |-> "available", len |-> 1], [kind |-> "missing", len |-> 1]}

LongestSegment == CHOOSE n \in {c.len : c \in SegmentChoices} : \A c \in SegmentChoices : c.len <= n

Horizon == MaxSegments * LongestSegment

AllDates == [i \in 1..Horizon |-> Strftime(i - 1)]

RECURSIVE SeqsUpTo(_, _)
SeqsUpTo(S, n) ==
    IF n = 0 THEN {<<>>}
    ELSE LET shorter == SeqsUpTo(S, n - 1)
         IN  shorter \cup {Append(s, x) : s \in {t \in shorter : Len(t) = n - 1}, x \in S}

RECURSIVE SegmentStart(_, _)
SegmentStart(segs, i) == IF i = 1 THEN 0 ELSE SegmentStart(segs, i - 1) + segs[i - 1].len

\* the day-by-day status record of a date: availability and price info
StatusRecord(kind, date) == [available |-> (kind = "available"), price |-> 100 + (date % 3)]

\* A calendar is a dict: its keys in insertion order, and the value of each.
CalendarOf(segs) ==
    LET present == {i \in 1..Len(segs) : segs[i].kind # "missing"}
        dates   == UNION {{SegmentStart(segs, i) + k : k \in 0..(segs[i].len - 1)} : i \in present}
        kindAt(date) == LET i == CHOOSE j \in present :
                                    /\ SegmentStart(segs, j) <= date
                                    /\ date < SegmentStart(segs, j) + segs[j].len
                        IN  segs[i].kind
        keys    == {Strftime(date) : date \in dates}
    IN  [order |-> SelectSeq(AllDates, LAMBDA dt : dt \in keys),
         val   |-> [dt \in keys |-> StatusRecord(kindAt(Strptime(dt)), Strptime(dt))]]

Calendars(n) == {CalendarOf(segs) : segs \in SeqsUpTo(SegmentChoices, n)}

(***************************************************************************)
(* Calendar.get_date_ranges(status, calendar): the maximal runs of         *)
(* consecutive dates of the calendar whose status is the one asked for,    *)
(* by start date.  A date missing from the calendar ends a run.            *)
(***************************************************************************)
RECURSIVE Ascending(_)
Ascending(S) ==
    IF S = {} THEN <<>>
    ELSE LET lo == CHOOSE a \in S : \A b \in S : a <= b
         IN  <<lo>> \o Ascending(S \ {lo})

GetDateRanges(status, calendar) ==
    LET days   == {Strptime(dt) : dt \in {k \in DOMAIN calendar.val :
                                            calendar.val[k].available = (status = "available")}}
        starts == {d \in days : (d - 1) \notin days}
        ends   == {d \in days : (d + 1) \notin days}
        endOf(s) == CHOOSE e \in ends : e >= s /\ \A f \in ends : f >= s => e <= f
        order  == Ascending(starts)
    IN  [i \in 1..Len(order) |->
            [status |-> status, start |-> order[i], length |-> endOf(order[i]) - order[i] + 1]]

(***************************************************************************)
(* The booking-calendar clean-up of __update_calendar_and_pricing.         *)
(***************************************************************************)
FabricatedNights == 62

SuspiciousNights == 50

IsFabricatedFrom62(date_range) == date_range.length >= FabricatedNights

IsSuspiciousFrom50(date_range) == date_range.length >= SuspiciousNights

\* if date_range['length'] > 62
IsFabricated(date_range) == date_range.length > FabricatedNights

\* elif date_range['length'] > 50
IsSuspicious(date_range) == date_range.length > SuspiciousNights

\* [(start + timedelta(days=i)).strftime('%Y-%m-%d') for i in range(length)]
BookingDates(date_range) ==
    [i \in 1..date_range.length |-> Strftime(date_range.start + (i - 1))]

\* sorted(S) of a set of date strings
Sorted(S) == SelectSeq(AllDates, LAMBDA dt : dt \in S)

\* {dt: calendar[dt] for dt in sorted(set(calendar) - set(booking_dates))}
RemoveDates(calendar, booking_dates) ==
    LET keep == DOMAIN calendar.val \ {booking_dates[i] : i \in DOMAIN booking_dates}
    IN  [order |-> Sorted(keep), val |-> [dt \in keep |-> calendar.val[dt]]]

\* the loop left after the first removal
RECURSIVE CleanLoopFirstOnly(_, _, _)
CleanLoopFirstOnly(date_ranges, calendar, warnings) ==
    IF date_ranges = <<>> THEN [calendar |-> calendar, warnings |-> warnings]
    ELSE LET date_range == Head(date_ranges)
         IN  IF IsFabricated(date_range)
             THEN [calendar |-> RemoveDates(calendar, BookingDates(date_range)),
                   warnings |-> warnings]
             ELSE IF IsSuspicious(date_range)
             THEN CleanLoopFirstOnly(Tail(date_ranges), calendar, Append(warnings, date_range.length))
             ELSE CleanLoopFirstOnly(Tail(date_ranges), calendar, warnings)

\* the for loop over the booked ranges of the calendar as fetched
RECURSIVE CleanLoop(_, _, _)
CleanLoop(date_ranges, calendar, warnings) ==
    IF date_ranges = <<>> THEN [calendar |-> calendar, warnings |-> warnings]
    ELSE LET date_range == Head(date_ranges)
         IN  IF IsFabricated(date_range)
             THEN CleanLoop(Tail(date_ranges), RemoveDates(calendar, BookingDates(date_range)), warnings)
             ELSE IF IsSuspicious(date_range)
             THEN CleanLoop(Tail(date_ranges), calendar, Append(warnings, date_range.length))
             ELSE CleanLoop(Tail(date_ranges), calendar, warnings)

CleanCalendar(calendar) == CleanLoop(GetDateRanges("booked", calendar), calendar, <<>>)

(***************************************************************************)
(* A dict is a function from its keys.                                     *)
(***************************************************************************)
EmptyDict == <<>>

\* dict.update
Update(d, e) == [k \in DOMAIN d \cup DOMAIN e |-> IF k \in DOMAIN e THEN e[k] ELSE d[k]]

Restrict(d, keys) == [k \in DOMAIN d \cap keys |-> d[k]]

(***************************************************************************)
(* AirbnbCalendarScraper.  The state is the argument of run, the index of  *)
(* the persistence, the position of the run, the locals of the listing     *)
(* being refreshed, and a record of the calls made to the collaborators.   *)
(***************************************************************************)
ListingIds == {"l1", "l2"}

MaxIndex == 2

NightBounds == {<<1, 30>>, <<2, 7>>}

\* the calendars the calendar fetch may return in a run: long ones in a run
\* over at most one listing, short ones in a run over several
FeedSegments(ids) == IF Len(ids) <= 1 THEN MaxSegments ELSE FlowSegments

None == [none |-> TRUE]

NoCycle ==
    [listing |-> None, at |-> 0, forbidden_at |-> "none", probe |-> 0, rate |-> "none",
     update_calendar |-> 0, update_pricing |-> 0, mark_deleted |-> 0,
     order |-> <<>>, warnings |-> <<>>]

VARIABLES
    source,          \* run's argument: 'elasticsearch' or a listing id
    index,           \* persistence.get_all_index_ids()
    cpc,             \* where AirbnbCalendarScraper.run stands
    pos,             \* position of the for loop in the index
    raw_calendar,    \* the calendar as get_calendar returned it
    calendar,        \* the local calendar of __update_calendar_and_pricing
    nights,          \* <<min_nights, max_nights>>
    sent_calendar,   \* the calendar handed to persistence.update_calendar
    sent_ranges,     \* the ranges handed to get_rate_data
    cycle,           \* the calls of the current (or last) refresh of a listing
    stored,          \* persistence: ids with a calendar, with pricing, deleted
    probed,          \* per id, the status codes its existence probes returned
    cal_raised,      \* the exception that reached run's caller
    returned         \* run's return value in single mode

cal_vars == <<source, index, cpc, pos, raw_calendar, calendar, nights, sent_calendar,
              sent_ranges, cycle, stored, probed, cal_raised, returned>>

VARIABLES
    ids_seen,        \* self.__ids_seen
    geography,       \* self.__geography
    spc,             \* where AirbnbSearchScraper.run stands
    query,           \* run's arguments
    params,
    url,
    data,            \* the current response
    pagination,
    listings,        \* the records collected by this run
    n_listings,
    page,
    listing_ids,     \* the identifiers of the page being processed
    li,              \* position of the for loop in listing_ids
    reviews,         \* the reviews payload of the listing being fetched
    n_search,        \* search requests made by the crawler so far
    n_listed,        \* identifiers listed by the responses so far
    counts,          \* per identifier: occurrences on processed pages, fetches, warnings
    trace,           \* the collaborator calls and log lines of this run, in order
    search_raised,   \* the exception that reached run's caller
    responses,       \* the (data, pagination) pairs Explore.search returned to this run
    saved_ids        \* identifiers of the records persistence.save was handed so far

search_vars == <<ids_seen, geography, spc, query, params, url, data, pagination, listings,
                 n_listings, page, listing_ids, li, reviews, n_search, n_listed, counts,
                 trace, search_raised, responses, saved_ids>>

CalInit ==
    /\ source \in {"elasticsearch"} \cup ListingIds
    /\ index \in (IF source = "elasticsearch" THEN SeqsUpTo(ListingIds, MaxIndex) ELSE {<<>>})
    /\ cpc = "run"
    /\ pos = 1
    /\ raw_calendar = None
    /\ calendar = None
    /\ nights = None
    /\ sent_calendar = None
    /\ sent_ranges = None
    /\ cycle = NoCycle
    /\ stored = [calendar |-> {}, pricing |-> {}, deleted |-> {}]
    /\ probed = [id \in ListingIds |-> {}]
    /\ cal_raised = "none"
    /\ returned = None

listing_id == index[pos]

\* the locals of __update_calendar_and_pricing go when it returns or raises
DropLocals ==
    /\ raw_calendar' = None
    /\ calendar' = None
    /\ nights' = None
    /\ sent_calendar' = None
    /\ sent_ranges' = None

KeepLocals == UNCHANGED <<raw_calendar, calendar, nights, sent_calendar, sent_ranges>>

\* __update_calendar_and_pricing returns: the for loop of run moves on
ReturnToLoop == cpc' = "for" /\ pos' = pos + 1 /\ cal_raised' = "none" /\ DropLocals

\* the failure is isolated and the for loop goes on
RaiseAndContinue(e) == cpc' = "for" /\ pos' = pos + 1 /\ cal_raised' = e /\ DropLocals

\* an exception leaves run
Raise(e) == cpc' = "raised" /\ pos' = pos /\ cal_raised' = e /\ DropLocals

\* run, line 97-100: the mode, and in bulk mode the index
Run ==
    /\ cpc = "run"
    /\ cpc' = (IF source = "elasticsearch" THEN "for" ELSE "single_get_calendar")
    /\ UNCHANGED <<source, index, pos, cycle, stored, probed, cal_raised, returned>>
    /\ KeepLocals
    /\ UNCHANGED search_vars

StartCycle == [NoCycle EXCEPT !.listing = listing_id, !.at = pos]

\* line 100-101 and 109-112: the next listing of the index, and its calendar fetch
GetCalendar ==
    /\ cpc = "for"
    /\ pos <= Len(index)
    /\ \/ \E c \in Calendars(FeedSegments(index)), n \in NightBounds :
            /\ raw_calendar' = c
            /\ calendar' = c
            /\ nights' = n
            /\ cycle' = [StartCycle EXCEPT !.order = <<"get_calendar">>]
            /\ cpc' = "update_calendar"
            /\ UNCHANGED <<pos, cal_raised, sent_calendar, sent_ranges>>
       \/ /\ cycle' = [StartCycle EXCEPT !.order = <<"get_calendar">>,
                                      !.forbidden_at = "get_calendar"]
          /\ cpc' = "exists_listing"
          /\ UNCHANGED <<pos, cal_raised>>
          /\ KeepLocals
       \/ /\ cycle' = [StartCycle EXCEPT !.order = <<"get_calendar">>]
          /\ Raise("Error")
    /\ UNCHANGED <<source, index, stored, probed, returned>>
    /\ UNCHANGED search_vars

\* line 113-122: the clean-up loop and persistence.update_calendar
UpdateCalendar ==
    /\ cpc = "update_calendar"
    /\ LET cleaned == CleanCalendar(calendar)
       IN  /\ calendar' = cleaned.calendar
           /\ sent_calendar' = cleaned.calendar
           /\ cycle' = [cycle EXCEPT !.update_calendar = @ + 1,
                                     !.warnings = cleaned.warnings,
                                     !.order = Append(@, "update_calendar")]
    /\ stored' = [stored EXCEPT !.calendar = @ \cup {listing_id}]
    /\ cpc' = "get_rate_data"
    /\ UNCHANGED <<source, index, pos, raw_calendar, nights, sent_ranges, probed, cal_raised,
                   returned>>
    /\ UNCHANGED search_vars

\* what the rate-data fetch returns: a pricing document, or nothing
RateDocs == {EmptyDict, [nightly |-> "r1"]}

\* the record of what the rate-data fetch returned
RateKind(pricing_doc) == IF pricing_doc = EmptyDict THEN "empty" ELSE "doc"

NoPricingNever(pricing_doc) == FALSE

NoPricingInverted(pricing_doc) == pricing_doc # EmptyDict

\* line 125: if not pricing_doc
NoPricing(pricing_doc) == pricing_doc = EmptyDict

\* line 123-127: the available ranges, the rate-data fetch, and the early return
GetRateData ==
    /\ cpc = "get_rate_data"
    /\ LET ranges == GetDateRanges("available", calendar)
           called == [cycle EXCEPT !.order = Append(@, "get_rate_data")]
       IN  \/ \E pricing_doc \in RateDocs :
                IF NoPricing(pricing_doc)
                THEN /\ cycle' = [called EXCEPT !.rate = RateKind(pricing_doc),
                                                !.warnings = Append(@, "no pricing data")]
                     /\ ReturnToLoop
                ELSE /\ sent_ranges' = ranges
                     /\ cycle' = [called EXCEPT !.rate = RateKind(pricing_doc)]
                     /\ cpc' = "update_pricing"
                     /\ UNCHANGED <<pos, raw_calendar, calendar, nights, sent_calendar,
                                    cal_raised>>
           \/ /\ cycle' = [called EXCEPT !.forbidden_at = "get_rate_data"]
              /\ cpc' = "exists_listing"
              /\ UNCHANGED <<pos, cal_raised>>
              /\ KeepLocals
           \/ /\ cycle' = called
              /\ Raise("Error")
    /\ UNCHANGED <<source, index, stored, probed, returned>>
    /\ UNCHANGED search_vars

\* line 128: persistence.update_pricing
UpdatePricing ==
    /\ cpc = "update_pricing"
    /\ cycle' = [cycle EXCEPT !.update_pricing = @ + 1, !.order = Append(@, "update_pricing")]
    /\ stored' = [stored EXCEPT !.pricing = @ \cup {listing_id}]
    /\ ReturnToLoop
    /\ UNCHANGED <<source, index, probed, returned>>
    /\ UNCHANGED search_vars

\* the status codes the probe's request may answer
StatusCodes == {200, 410, 404, 503}

ExistsListingSwapped(status_code) ==
    IF status_code = 410 THEN "True"
    ELSE IF status_code = 200 THEN "False"
    ELSE "RuntimeError"

ExistsListingLenient(status_code) == IF status_code = 200 THEN "True" ELSE "False"

\* __exists_listing, line 137-147
ExistsListingResult(status_code) ==
    IF status_code = 200 THEN "True"
    ELSE IF status_code = 410 THEN "False"
    ELSE "RuntimeError"

\* line 129-133: the handler of ForbiddenException and the existence probe
ExistsListing ==
    /\ cpc = "exists_listing"
    /\ \/ \E status_code \in StatusCodes :
            /\ cycle' = [cycle EXCEPT !.probe = status_code,
                                      !.order = Append(@, "exists_listing")]
            /\ probed' = [probed EXCEPT ![listing_id] = @ \cup {status_code}]
            /\ IF ExistsListingResult(status_code) = "False"
               THEN /\ cpc' = "mark_deleted"
                    /\ UNCHANGED <<pos, cal_raised>>
                    /\ KeepLocals
               ELSE Raise("RuntimeError")
       \/ /\ cycle' = [cycle EXCEPT !.order = Append(@, "exists_listing")]
          /\ Raise("Error")
          /\ UNCHANGED probed
    /\ UNCHANGED <<source, index, stored, returned>>
    /\ UNCHANGED search_vars

\* line 133-134: persistence.mark_deleted
MarkDeleted ==
    /\ cpc = "mark_deleted"
    /\ cycle' = [cycle EXCEPT !.mark_deleted = @ + 1, !.order = Append(@, "mark_deleted"),
                              !.warnings = Append(@, "GONE")]
    /\ stored' = [stored EXCEPT !.deleted = @ \cup {listing_id}]
    /\ ReturnToLoop
    /\ UNCHANGED <<source, index, probed, returned>>
    /\ UNCHANGED search_vars

\* line 100: the index is exhausted, run returns None
BulkDone ==
    /\ cpc = "for"
    /\ pos > Len(index)
    /\ cpc' = "done"
    /\ UNCHANGED <<source, index, pos, cycle, stored, probed, cal_raised, returned>>
    /\ KeepLocals
    /\ UNCHANGED search_vars

SingleCalendarCleaned(booking_calendar) == CleanCalendar(booking_calendar).calendar

\* what run returns of the fetched calendar in single mode, line 105
SingleCalendar(booking_calendar) == booking_calendar

\* line 103: single mode, the calendar fetch (no handler around it)
SingleGetCalendar ==
    /\ cpc = "single_get_calendar"
    /\ \/ \E c \in Calendars(MaxSegments), n \in NightBounds :
            /\ raw_calendar' = c
            /\ calendar' = c
            /\ nights' = n
            /\ cpc' = "single_get_rate_data"
            /\ UNCHANGED <<pos, cal_raised, sent_calendar, sent_ranges>>
       \/ \E e \in {"Forbidden", "Error"} : Raise(e)
    /\ UNCHANGED <<source, index, cycle, stored, probed, returned>>
    /\ UNCHANGED search_vars

\* line 104-105: the available ranges of the calendar, the rate data, the return
SingleGetRateData ==
    /\ cpc = "single_get_rate_data"
    /\ \/ \E doc \in RateDocs :
            /\ returned' = [booking_calendar |-> SingleCalendar(calendar), rate_data |-> doc]
            /\ sent_ranges' = GetDateRanges("available", calendar)
            /\ cpc' = "returned"
            /\ calendar' = None
            /\ nights' = None
            /\ UNCHANGED <<pos, cal_raised, raw_calendar, sent_calendar>>
       \/ /\ \E e \in {"Forbidden", "Error"} : Raise(e)
          /\ UNCHANGED returned
    /\ UNCHANGED <<source, index, cycle, stored, probed>>
    /\ UNCHANGED search_vars

CalNext ==
    \/ Run
    \/ GetCalendar
    \/ UpdateCalendar
    \/ GetRateData
    \/ UpdatePricing
    \/ ExistsListing
    \/ MarkDeleted
    \/ BulkDone
    \/ SingleGetCalendar
    \/ SingleGetRateData

(***************************************************************************)
(* AirbnbSearchScraper.                                                    *)
(***************************************************************************)
\* the keys the URL builder writes as plain query parameters; every other
\* key of params goes into the JSON of the 'variables' parameter
PlainKeys == {"ne_lat", "ne_lng", "sw_lat", "sw_lng", "itemsOffset"}

\* Explore.get_url(query, params)
GetUrl(q, ps) ==
    [query |-> q, variables |-> Restrict(ps, DOMAIN ps \ PlainKeys), qs |-> Restrict(ps, PlainKeys)]

\* line 68-70: check-in and check-out
AddDates(ps, variables) ==
    IF "checkin" \in DOMAIN variables
    THEN IF "checkout" \in DOMAIN variables
         THEN [raised |-> "none", params |-> Update(ps, Restrict(variables, {"checkin", "checkout"}))]
         ELSE [raised |-> "KeyError", params |-> Update(ps, Restrict(variables, {"checkin"}))]
    ELSE [raised |-> "none", params |-> ps]

\* line 72-88: a key is copied when the parsed query holds it
AddIfPresent(ps, from, key) == IF key \in DOMAIN from THEN Update(ps, Restrict(from, {key})) ELSE ps

\* __add_search_params(params, url): the new params, or the KeyError of line 70
AddSearchParams(ps, u) ==
    LET dated == AddDates(ps, u.variables)
    IN  IF dated.raised # "none" THEN dated
        ELSE LET p1 == AddIfPresent(dated.params, u.variables, "priceMax")
                 p2 == AddIfPresent(p1, u.variables, "priceMin")
                 p3 == AddIfPresent(p2, u.qs, "ne_lat")
                 p4 == AddIfPresent(p3, u.qs, "ne_lng")
                 p5 == AddIfPresent(p4, u.qs, "sw_lat")
             IN  [raised |-> "none", params |-> AddIfPresent(p5, u.qs, "sw_lng")]

\* what run is called with
CallerArgs ==
    {[query |-> "q1", params |-> EmptyDict],
     [query |-> "q2", params |-> [checkin |-> "d1", checkout |-> "d2", ne_lat |-> "n1", adults |-> "2"]],
     [query |-> "q3", params |-> [checkin |-> "d1", priceMax |-> "p9"]]}

\* bounds of the search collaborator over the life of the crawler: the
\* requests it answers, and the identifiers its responses list in all
MaxSearches == 3

MaxListed == 3

Geographies == {[city |-> "A"], [city |-> "B", country |-> "X"]}

Offsets == {20, 40}

\* (data, pagination) of Explore.search for the n-th request, when the
\* responses before it listed m identifiers; the last request the bound
\* allows is answered with no next page
Responses(n, m) ==
    {[ids |-> ids, geography |-> g, hasNextPage |-> h, itemsOffset |-> o] :
        ids \in SeqsUpTo(ListingIds, MaxListed - m), g \in Geographies,
        h \in (IF n < MaxSearches THEN BOOLEAN ELSE {FALSE}), o \in Offsets}

\* the payload is lost
ReviewsOfNone(id) == None

\* Reviews.get_reviews(listing_id)
ReviewsOf(id) == [reviews_of |-> id]

\* Pdp.get_listing(listing_id, data_cache, geography, reviews)
ListingRecord(id, geo, rv) == [id |-> id, geography |-> geo, reviews |-> rv]

IdsSeenAddNothing(seen, id) == seen

\* self.__ids_seen.add(listing_id)
IdsSeenAdd(seen, id) == seen \cup {id}

\* a loop test that always holds
HasNextPageAlways(pg) == TRUE

\* line 41: pagination.get('hasNextPage')
HasNextPage(pg) == pg.hasNextPage

NoCounts == [id \in ListingIds |-> [occurrences |-> 0, reviews |-> 0, detail |-> 0, warnings |-> 0]]

\* __init__, line 24-31
SearchInit ==
    /\ ids_seen = {}
    /\ geography = EmptyDict
    /\ spc = "idle"
    /\ query = None
    /\ params = None
    /\ url = None
    /\ data = None
    /\ pagination = None
    /\ listings = <<>>
    /\ n_listings = 0
    /\ page = 0
    /\ listing_ids = <<>>
    /\ li = 0
    /\ reviews = None
    /\ n_search = 0
    /\ n_listed = 0
    /\ counts = NoCounts
    /\ trace = <<>>
    /\ search_raised = "none"
    /\ responses = <<>>
    /\ saved_ids = {}

Event(op, arg) == [op |-> op, arg |-> arg]

\* the exception is swallowed and the loop goes on
SearchRaiseSwallowed(e) == spc' = "for" /\ search_raised' = e

\* an exception leaves run
SearchRaise(e) == spc' = "raised" /\ search_raised' = e

\* line 34-40: the first request and the geography of its response
RunSearch ==
    /\ spc \in {"idle", "done", "raised"}
    /\ n_search < MaxSearches
    /\ \E args \in CallerArgs :
        /\ query' = args.query
        /\ params' = args.params
        /\ url' = GetUrl(args.query, args.params)
        /\ listings' = <<>>
        /\ n_search' = n_search + 1
        /\ trace' = <<Event("search", GetUrl(args.query, args.params))>>
        /\ listing_ids' = <<>>
        /\ li' = 0
        /\ reviews' = None
        /\ \/ \E r \in Responses(n_search + 1, n_listed) :
                /\ data' = [ids |-> r.ids, geography |-> r.geography]
                /\ responses' = <<r>>
                /\ n_listed' = n_listed + Len(r.ids)
                /\ pagination' = [hasNextPage |-> r.hasNextPage, itemsOffset |-> r.itemsOffset]
                /\ geography' = Update(geography, r.geography)
                /\ n_listings' = 0
                /\ page' = 1
                /\ spc' = "while"
                /\ search_raised' = "none"
           \/ /\ SearchRaise("FetchError")
              /\ data' = None
              /\ pagination' = None
              /\ n_listings' = 0
              /\ page' = 0
              /\ responses' = <<>>
              /\ UNCHANGED <<geography, n_listed>>
    /\ UNCHANGED <<ids_seen, counts, saved_ids>>
    /\ UNCHANGED cal_vars

\* line 41-43: the loop test and the identifiers of the page
CollectListings ==
    /\ spc = "while"
    /\ HasNextPage(pagination)
    /\ listing_ids' = data.ids
    /\ li' = 1
    /\ spc' = "for"
    /\ trace' = Append(trace, Event("collect", data.ids))
    /\ UNCHANGED <<ids_seen, geography, query, params, url, data, pagination, listings,
                   n_listings, page, reviews, n_search, n_listed, counts, search_raised,
                   responses, saved_ids>>
    /\ UNCHANGED cal_vars

\* line 45-47: an identifier already seen
SkipDuplicate ==
    /\ spc = "for"
    /\ li <= Len(listing_ids)
    /\ listing_ids[li] \in ids_seen
    /\ counts' = [counts EXCEPT ![listing_ids[li]].occurrences = @ + 1,
                                ![listing_ids[li]].warnings = @ + 1]
    /\ trace' = Append(trace, Event("warning", listing_ids[li]))
    /\ li' = li + 1
    /\ UNCHANGED <<ids_seen, geography, spc, query, params, url, data, pagination, listings,
                   n_listings, page, listing_ids, reviews, n_search, n_listed, search_raised,
                   responses, saved_ids>>
    /\ UNCHANGED cal_vars

\* line 48-51: a new identifier is marked seen and its reviews are fetched
GetReviews ==
    /\ spc = "for"
    /\ li <= Len(listing_ids)
    /\ listing_ids[li] \notin ids_seen
    /\ ids_seen' = IdsSeenAdd(ids_seen, listing_ids[li])
    /\ n_listings' = n_listings + 1
    /\ counts' = [counts EXCEPT ![listing_ids[li]].occurrences = @ + 1,
                                ![listing_ids[li]].reviews = @ + 1]
    /\ trace' = Append(trace, Event("get_reviews", listing_ids[li]))
    /\ \/ /\ reviews' = ReviewsOf(listing_ids[li])
          /\ spc' = "get_listing"
          /\ UNCHANGED search_raised
       \/ /\ SearchRaise("FetchError")
          /\ UNCHANGED reviews
    /\ UNCHANGED <<geography, query, params, url, data, pagination, listings, page,
                   listing_ids, li, n_search, n_listed, responses, saved_ids>>
    /\ UNCHANGED cal_vars

\* line 52: the listing detail is fetched and appended
GetListing ==
    /\ spc = "get_listing"
    /\ counts' = [counts EXCEPT ![listing_ids[li]].detail = @ + 1]
    /\ trace' = Append(trace, Event("get_listing",
                                    ListingRecord(listing_ids[li], geography, reviews)))
    /\ \/ /\ listings' = Append(listings, ListingRecord(listing_ids[li], geography, reviews))
          /\ li' = li + 1
          /\ spc' = "for"
          /\ UNCHANGED search_raised
       \/ /\ SearchRaise("FetchError")
          /\ UNCHANGED <<listings, li>>
    /\ UNCHANGED <<ids_seen, geography, query, params, url, data, pagination, n_listings,
                   page, listing_ids, reviews, n_search, n_listed, responses, saved_ids>>
    /\ UNCHANGED cal_vars

\* line 54-59: the carried-forward parameters and the next request
NextPage ==
    /\ spc = "for"
    /\ li > Len(listing_ids)
    /\ LET added == AddSearchParams(params, url)
       IN  IF added.raised # "none"
           THEN /\ SearchRaise(added.raised)
                /\ params' = added.params
                /\ UNCHANGED <<url, data, pagination, page, n_search, n_listed, trace,
                               responses>>
           ELSE LET ps == Update(added.params, [itemsOffset |-> pagination.itemsOffset])
                IN  /\ params' = ps
                    /\ url' = GetUrl(query, ps)
                    /\ n_search' = n_search + 1
                    /\ trace' = Append(trace, Event("search", GetUrl(query, ps)))
                    /\ \/ \E r \in Responses(n_search + 1, n_listed) :
                            /\ data' = [ids |-> r.ids, geography |-> r.geography]
                            /\ responses' = Append(responses, r)
                            /\ n_listed' = n_listed + Len(r.ids)
                            /\ pagination' = [hasNextPage |-> r.hasNextPage,
                                              itemsOffset |-> r.itemsOffset]
                            /\ page' = page + 1
                            /\ spc' = "while"
                            /\ UNCHANGED search_raised
                       \/ /\ SearchRaise("FetchError")
                          /\ UNCHANGED <<data, pagination, page, n_listed, responses>>
    /\ UNCHANGED <<ids_seen, geography, query, listings, n_listings, listing_ids, li,
                   reviews, counts, saved_ids>>
    /\ UNCHANGED cal_vars

\* line 61-62: the collection is saved and the count reported
Save ==
    /\ spc = "while"
    /\ ~HasNextPage(pagination)
    /\ saved_ids' = saved_ids \cup {listings[i].id : i \in DOMAIN listings}
    /\ trace' = trace \o <<Event("save", [query |-> query, listings |-> listings]),
                           Event("info_total", n_listings)>>
    /\ spc' = "done"
    /\ UNCHANGED <<ids_seen, geography, query, params, url, data, pagination, listings,
                   n_listings, page, listing_ids, li, reviews, n_search, n_listed, counts,
                   search_raised, responses>>
    /\ UNCHANGED cal_vars

SearchNext ==
    \/ RunSearch
    \/ CollectListings
    \/ SkipDuplicate
    \/ GetReviews
    \/ GetListing
    \/ NextPage
    \/ Save

vars == <<cal_vars, search_vars>>

(***************************************************************************)
(* The calendar scraper's properties.                                      *)
(***************************************************************************)
Booked(n) == [kind |-> "booked", len |-> n]

Available1 == [kind |-> "available", len |-> 1]

\* the booked ranges of a calendar that are longer than 62
LongBookedRanges(c) ==
    LET rs == GetDateRanges("booked", c)
    IN  {rs[i] : i \in {j \in DOMAIN rs : rs[j].length > 62}}

InRange(r, dt) == r.start <= Strptime(dt) /\ Strptime(dt) < r.start + r.length

NoPersistenceCall ==
    /\ stored = [calendar |-> {}, pricing |-> {}, deleted |-> {}]
    /\ cycle = NoCycle
    /\ sent_calendar = None

\* the refresh of the listing at cycle.at is over and the for loop of run
\* stands at the next listing of the index, no exception raised
WentOnToNextListing ==
    /\ cpc \in {"for", "done"}
    /\ pos = cycle.at + 1
    /\ cal_raised = "none"

\* C3: in bulk mode, when the calendar fetch of a listing fails with
\* Forbidden and the existence probe returns 410, mark_deleted is called
\* exactly once for that listing, no exception reaches the caller, and the
\* run goes on to the next listing of the index.
C3_GoneIsMarkedDeleted ==
    (cycle.forbidden_at = "get_calendar" /\ cycle.probe = 410) =>
        \/ cpc = "mark_deleted" /\ cycle.mark_deleted = 0 /\ cal_raised = "none"
        \/ /\ WentOnToNextListing
           /\ cycle.mark_deleted = 1
           /\ cycle.listing \in stored.deleted
           /\ cycle.order = <<"get_calendar", "exists_listing", "mark_deleted">>

C3_Witness ==
    /\ cycle.forbidden_at = "get_calendar"
    /\ cycle.probe = 410
    /\ cycle.mark_deleted = 1
    /\ cpc = "for"
    /\ pos = 2
    /\ Len(index) = 2

\* C4: in bulk mode, when the calendar fetch of a listing fails with
\* Forbidden and the probe returns 200 or any status other than 410, a
\* fatal error reaches the caller and mark_deleted is not called for the
\* listing; mark_deleted(id) is called only after a probe of id returned 410.
C4_DeletedOnlyAfter410 ==
    /\ (cycle.forbidden_at = "get_calendar" /\ cycle.probe \notin {0, 410}) =>
            /\ cpc = "raised"
            /\ cal_raised = "RuntimeError"
            /\ cycle.mark_deleted = 0
            /\ cycle.order = <<"get_calendar", "exists_listing">>
    /\ (cpc = "mark_deleted" \/ cycle.mark_deleted > 0) => cycle.probe = 410
    /\ \A id \in stored.deleted : 410 \in probed[id]

C4_Witness ==
    /\ cycle.forbidden_at = "get_calendar"
    /\ cycle.probe = 200
    /\ cpc = "raised"
    /\ cycle.listing \notin stored.deleted

\* C5 as claimed: in single mode the calendar returned is the cleaned
\* calendar a bulk refresh would pass to update_calendar for the same raw
\* calendar, and no persistence operation is called.
C5_SingleReturnsCleaned ==
    (source # "elasticsearch") =>
        /\ NoPersistenceCall
        /\ (cpc = "returned") =>
                returned.booking_calendar = CleanCalendar(raw_calendar).calendar

\* C5 as amended: in single mode the calendar is returned exactly as it was
\* fetched, not cleaned (it equals the cleaned calendar only when the raw
\* calendar has no booked range longer than 62), the rate data is fetched
\* for the available ranges of the raw calendar, and no persistence
\* operation is called.
C5_SingleReturnsFetched ==
    (source # "elasticsearch") =>
        /\ NoPersistenceCall
        /\ (cpc = "returned") =>
                /\ returned.booking_calendar = raw_calendar
                /\ sent_ranges = GetDateRanges("available", raw_calendar)
                /\ (returned.booking_calendar = CleanCalendar(raw_calendar).calendar)
                        <=> (LongBookedRanges(raw_calendar) = {})

C5_Witness ==
    /\ source # "elasticsearch"
    /\ cpc = "returned"
    /\ LongBookedRanges(raw_calendar) # {}
    /\ returned.booking_calendar # CleanCalendar(raw_calendar).calendar

C7_CleanIsIdempotent ==
    (cpc = "get_rate_data") =>
        LET before == GetDateRanges("booked", raw_calendar)
            after  == GetDateRanges("booked", sent_calendar)
        IN  /\ CleanCalendar(sent_calendar).calendar = sent_calendar
            /\ \A i \in DOMAIN after : after[i].length <= 62
            /\ after = SelectSeq(before, LAMBDA r : r.length <= 62)
            /\ (raw_calendar = CalendarOf(<<Booked(40), Available1, Booked(40)>>)) =>
                    (sent_calendar = raw_calendar /\ Len(after) = 2)

C7_Witness ==
    /\ cpc = "get_rate_data"
    /\ raw_calendar = CalendarOf(<<Booked(63), Available1, Booked(63)>>)
    /\ sent_calendar = CalendarOf(<<[kind |-> "missing", len |-> 63], Available1>>)

\* C8 as claimed: in a bulk refresh the probe and mark_deleted follow only a
\* Forbidden failure of the calendar fetch: mark_deleted is never called
\* for a listing in a refresh cycle in which update_calendar was called.
C8_DeletedOnlyBeforeCalendarUpdate ==
    (cycle.probe # 0 \/ cycle.mark_deleted > 0) =>
        (cycle.forbidden_at = "get_calendar" /\ cycle.update_calendar = 0)

\* C9: in a bulk refresh, when the rate-data fetch returns no pricing data,
\* update_pricing is not called for the listing, the update_calendar call
\* made for it stands, no error is raised, and the run continues with the
\* next listing of the index.
C9_NoPricingKeepsCalendar ==
    (cycle.rate = "empty") =>
        /\ cycle.update_pricing = 0
        /\ cycle.update_calendar = 1
        /\ cycle.listing \in stored.calendar
        /\ cycle.order = <<"get_calendar", "update_calendar", "get_rate_data">>
        /\ WentOnToNextListing

C9_Witness ==
    /\ cycle.rate = "empty"
    /\ cycle.update_calendar = 1
    /\ cpc = "for"
    /\ pos = 2
    /\ Len(index) = 2

\* C10: in every refresh cycle of a listing, whatever the collaborators
\* return or raise, update_calendar is called at most once and
\* update_pricing at most once, and update_pricing only after
\* update_calendar and a non-empty rate-data result.
C10_OneWriteEachPerCycle ==
    /\ cycle.update_calendar <= 1
    /\ cycle.update_pricing <= 1
    /\ Cardinality({i \in DOMAIN cycle.order : cycle.order[i] = "update_calendar"})
            = cycle.update_calendar
    /\ Cardinality({i \in DOMAIN cycle.order : cycle.order[i] = "update_pricing"})
            = cycle.update_pricing
    /\ (cpc = "update_pricing" \/ cycle.update_pricing = 1) =>
            /\ cycle.rate = "doc"
            /\ cycle.update_calendar = 1
            /\ SubSeq(cycle.order, 1, 3) = <<"get_calendar", "update_calendar", "get_rate_data">>

C10_Witness ==
    /\ cycle.update_pricing = 1
    /\ cycle.update_calendar = 1
    /\ cycle.order = <<"get_calendar", "update_calendar", "get_rate_data", "update_pricing">>

\* the refresh cycle ran to one of its ends: the pricing written, no pricing
\* data to write, or the listing marked deleted
CycleCompleted ==
    \/ cycle.update_pricing = 1 /\ cycle.rate = "doc"
    \/ cycle.rate = "empty" /\ cycle.update_calendar = 1
    \/ cycle.mark_deleted = 1 /\ cycle.probe = 410

\* the listings of the index the for loop of run has reached
Reached == {index[i] : i \in 1..(IF pos <= Len(index) THEN pos ELSE Len(index))}

\* a bulk run goes on past a listing only when its cycle completed, and an
\* exception left it at the listing whose cycle did not
AbortedAtFailure ==
    (source = "elasticsearch") =>
        /\ (cpc = "raised") =>
                /\ cal_raised # "none"
                /\ pos = cycle.at
                /\ cycle.listing = index[pos]
                /\ ~CycleCompleted
                /\ cycle.probe # 410
        /\ (cycle.at > 0 /\ pos > cycle.at) =>
                /\ cal_raised = "none"
                /\ CycleCompleted
                /\ cycle.probe \in {0, 410}
        /\ \A id \in ListingIds :
                (id \in stored.calendar \cup stored.pricing \cup stored.deleted \/ probed[id] # {})
                    => id \in Reached

\* once an exception left run, no collaborator is called any more
NothingAfterAbort == (cpc = "raised") => UNCHANGED cal_vars

\* C12: in bulk mode a failure in the refresh of a listing, other than a
\* Forbidden that the probe resolves to 410, aborts the whole run: the error
\* reaches the caller and no calendar fetch, rate fetch, persistence write
\* or probe is made for any later listing of the index.
C12_FailureAbortsBulkRun == []AbortedAtFailure /\ [][NothingAfterAbort]_vars

\* the rate fetch of the first of two listings fails after its calendar was written
C12_Witness ==
    /\ source = "elasticsearch"
    /\ cpc = "raised"
    /\ cal_raised = "Error"
    /\ Len(index) = 2
    /\ index[1] # index[2]
    /\ pos = 1
    /\ cycle.order = <<"get_calendar", "update_calendar", "get_rate_data">>
    /\ stored.calendar = {index[1]}

Positions(op) == {i \in DOMAIN trace : trace[i].op = op}

\* an identifier of the page being processed that was seen before is skipped
DuplicateSkipped ==
    (spc = "for" /\ li <= Len(listing_ids) /\ listing_ids[li] \in ids_seen) =>
        /\ spc' = "for"
        /\ li' = li + 1
        /\ search_raised' = search_raised
        /\ listings' = listings
        /\ n_listings' = n_listings
        /\ counts'[listing_ids[li]].warnings = counts[listing_ids[li]].warnings + 1
        /\ counts'[listing_ids[li]].reviews = counts[listing_ids[li]].reviews
        /\ counts'[listing_ids[li]].detail = counts[listing_ids[li]].detail

FetchedOnceAtFirstOccurrence ==
    \A id \in ListingIds :
        LET c == counts[id]
        IN  /\ c.reviews <= 1
            /\ c.detail <= c.reviews
            /\ (c.occurrences = 0) => (c.reviews = 0 /\ c.warnings = 0)
            /\ (c.occurrences > 0) => (c.reviews = 1 /\ c.warnings = c.occurrences - 1)
            /\ (id \in ids_seen) <=> (c.occurrences > 0)

\* C1: over the pages processed by run, within a page, across pages and
\* across runs of the crawler, each identifier gets at most one reviews
\* fetch and at most one detail fetch, both at its first occurrence; every
\* later occurrence is skipped with exactly one duplicate warning and
\* raises no error.
C1_FetchedOnceDuplicatesSkipped == []FetchedOnceAtFirstOccurrence /\ [][DuplicateSkipped]_vars

\* an identifier fetched on one page is skipped on the next page
C1_Witness ==
    \E i, j, k \in DOMAIN trace :
        /\ i < j /\ j < k
        /\ trace[i].op = "get_listing"
        /\ trace[j].op = "search"
        /\ trace[k].op = "warning"
        /\ trace[k].arg = trace[i].arg.id
        /\ counts[trace[k].arg].detail = 1
        /\ spc = "done"

\* what a run that saved once, after its last request, looks like
SavedOnce ==
    LET fetched == SelectSeq(trace, LAMBDA e : e.op = "get_listing")
    IN  /\ Cardinality(Positions("save")) = 1
        /\ \A i \in Positions("save") :
            /\ \A j \in Positions("search") : j < i
            /\ trace[i].arg.query = trace[1].arg.query
            /\ trace[i].arg.listings = [k \in 1..Len(fetched) |-> fetched[k].arg]
            /\ trace[i + 1] = Event("info_total", Len(trace[i].arg.listings))

\* C2 as claimed: a run in which no fetch fails calls persistence.save
\* exactly once, after the last search request, with the original query and
\* the records fetched during the run in fetch order, and reports their
\* number.
C2_SavedOnceWhenNoFetchFails ==
    (spc \in {"done", "raised"} /\ search_raised # "FetchError") => SavedOnce

\* what holds of it: a run that returns has saved once; a run that an
\* exception left has not saved
C2_SavedOnceWhenReturned ==
    /\ (spc = "done") => SavedOnce
    /\ (spc # "done") => Positions("save") = {}

\* the fetches of a crawl run
FetchOps == {"search", "get_reviews", "get_listing"}

\* the run a fetch failure ended: the failed fetch is the last call it made
FailedFetchIsLast ==
    (search_raised = "FetchError") =>
        /\ spc = "raised"
        /\ trace # <<>>
        /\ trace[Len(trace)].op \in FetchOps
        /\ Positions("save") = {}

\* the crawler does nothing more for a run that raised: its next step is the
\* caller's next call of run
NothingAfterRaise ==
    (spc = "raised") =>
        /\ Len(trace') = 1
        /\ trace'[1].op = "search"
        /\ listings' = <<>>
        /\ saved_ids' = saved_ids

\* C11: in AirbnbSearchScraper.run a failure of a search, reviews or
\* listing-detail fetch reaches the caller with no retry: after the failure
\* the run issues no further fetch and does not call persistence.save.
C11_FetchFailurePropagates == []FailedFetchIsLast /\ [][NothingAfterRaise]_vars

\* a detail fetch fails on the second page, after a record was collected
C11_Witness ==
    /\ search_raised = "FetchError"
    /\ spc = "raised"
    /\ trace[Len(trace)].op = "get_listing"
    /\ Len(listings) >= 1
    /\ page = 2

\* C13 as claimed: within a run the geography is that of the first search
\* response: every listing-detail fetch of the run receives the geography of
\* the first response, and the response of a later page never changes it.
C13_GeographyOfFirstResponse ==
    (responses # <<>>) =>
        /\ geography = responses[1].geography
        /\ \A i \in Positions("get_listing") : trace[i].arg.geography = responses[1].geography

\* what holds of it: the first response of a run is merged into the mapping
\* the instance already holds, and no later page changes the result
C13_GeographyMergedOnce ==
    (responses # <<>>) =>
        /\ \A k \in DOMAIN responses[1].geography : geography[k] = responses[1].geography[k]
        /\ \A i \in Positions("get_listing") : trace[i].arg.geography = geography

\* the fields the carry-forward step copies
CarriedKeys == {"checkin", "checkout", "priceMin", "priceMax", "ne_lat", "ne_lng", "sw_lat", "sw_lng"}

\* C14 as claimed: applied to the params and the URL of the previous request,
\* the carry-forward step raises nothing, copies each of check-in, check-out,
\* price min, price max and the four bounding-box coordinates that is
\* present in the parsed query, and leaves every other key of params as it was.
C14_CarryForwardCopiesPresent ==
    (spc \in {"while", "for", "get_listing"}) =>
        LET added   == AddSearchParams(params, url)
            parsed  == Update(url.variables, url.qs)
            present == CarriedKeys \cap DOMAIN parsed
        IN  /\ added.raised = "none"
            /\ DOMAIN added.params = DOMAIN params \cup present
            /\ \A k \in present : added.params[k] = parsed[k]
            /\ \A k \in DOMAIN params \ present : added.params[k] = params[k]

\* what holds of it: the same, for a query that has no check-in or has a check-out
C14_CarryForwardWhenDatesPaired ==
    (spc \in {"while", "for", "get_listing"}
        /\ ("checkin" \in DOMAIN url.variables => "checkout" \in DOMAIN url.variables)) =>
        LET added   == AddSearchParams(params, url)
            parsed  == Update(url.variables, url.qs)
            present == CarriedKeys \cap DOMAIN parsed
        IN  /\ added.raised = "none"
            /\ DOMAIN added.params = DOMAIN params \cup present
            /\ \A k \in present : added.params[k] = parsed[k]
            /\ \A k \in DOMAIN params \ present : added.params[k] = params[k]

\* C15: when the very first search response of a run reports hasNextPage
\* false, the run fetches no reviews and no listing details, issues no
\* further search request, and calls persistence.save once, with an empty
\* collection.
C15_FirstResponseWithoutNextPage ==
    (responses # <<>> /\ ~responses[1].hasNextPage) =>
        /\ Len(responses) = 1
        /\ spc \in {"while", "done"}
        /\ search_raised = "none"
        /\ listings = <<>>
        /\ (spc = "while") => (Len(trace) = 1 /\ trace[1].op = "search")
        /\ (spc = "done") =>
                /\ Len(trace) = 3
                /\ trace[1].op = "search"
                /\ trace[2] = Event("save", [query |-> query, listings |-> <<>>])
                /\ trace[3] = Event("info_total", 0)

\* the run has returned; the page of its only response listed identifiers
C15_Witness ==
    /\ spc = "done"
    /\ responses # <<>>
    /\ ~responses[1].hasNextPage
    /\ responses[1].ids # <<>>
    /\ Positions("save") = {2}
    /\ ids_seen = {}

\* the position in the trace of the k-th call of op
NthPos(op, k) == CHOOSE i \in Positions(op) : Cardinality({j \in Positions(op) : j <= i}) = k

\* the last position of the trace that belongs to the page collected at c
PageEnd(c) ==
    LET later == {j \in DOMAIN trace : j > c /\ trace[j].op \in {"search", "save"}}
    IN  IF later = {} THEN Len(trace)
        ELSE (CHOOSE j \in later : \A l \in later : j <= l) - 1

\* the identifiers taken up between two positions of the trace, in order
Handled(from, to) ==
    LET taken == SelectSeq(SubSeq(trace, from, to), LAMBDA e : e.op \in {"warning", "get_reviews"})
    IN  [i \in 1..Len(taken) |-> taken[i].arg]

\* C16: listing processing in a crawl run is sequential and ordered: the
\* reviews fetch for a new identifier completes before its detail fetch,
\* which is given the reviews payload returned for that identifier;
\* identifiers are processed in the page's listing order and pages in server
\* order, and the next search request is issued only after every identifier
\* of the current page has been processed.
C16_ProcessedInOrder ==
    /\ \A i \in Positions("get_listing") :
            /\ i > 1
            /\ trace[i - 1] = Event("get_reviews", trace[i].arg.id)
            /\ trace[i].arg.reviews = [reviews_of |-> trace[i].arg.id]
    /\ \A i \in Positions("get_reviews") :
            (i < Len(trace)) => (trace[i + 1].op = "get_listing" /\ trace[i + 1].arg.id = trace[i].arg)
    /\ Cardinality(Positions("collect")) <= Len(responses)
    /\ \A k \in 1..Cardinality(Positions("collect")) :
            LET c    == NthPos("collect", k)
                e    == PageEnd(c)
                done == Handled(c + 1, e)
            IN  /\ trace[c].arg = responses[k].ids
                /\ c = NthPos("search", k) + 1
                /\ \A j \in (c + 1)..e : trace[j].op \in {"warning", "get_reviews", "get_listing"}
                /\ Len(done) <= Len(trace[c].arg)
                /\ done = SubSeq(trace[c].arg, 1, Len(done))
                /\ (e < Len(trace) /\ trace[e + 1].op = "search") =>
                        /\ done = trace[c].arg
                        /\ e + 1 = NthPos("search", k + 1)
    /\ listings = [i \in 1..Len(listings) |-> trace[NthPos("get_listing", i)].arg]

\* two pages were processed, the first one listing two new identifiers
C16_Witness ==
    /\ spc = "done"
    /\ Cardinality(Positions("collect")) = 2
    /\ Len(responses[1].ids) = 2
    /\ responses[1].ids[1] # responses[1].ids[2]
    /\ Len(responses[2].ids) = 1
    /\ Len(listings) = 2

\* the page of the k-th response of the run was collected and every
\* identifier on it was detail-fetched or skipped as a duplicate
PageProcessed(k) ==
    /\ k <= Cardinality(Positions("collect"))
    /\ LET c == NthPos("collect", k)
       IN  /\ trace[c].arg = responses[k].ids
           /\ Handled(c + 1, PageEnd(c)) = responses[k].ids
           /\ \A j \in (c + 1)..PageEnd(c) :
                (trace[j].op = "get_reviews") => (j < PageEnd(c) /\ trace[j + 1].op = "get_listing")

\* C17 as claimed: when a run completes, every response it received, the one
\* reporting no next page included, has had every identifier of its page
\* detail-fetched or skipped as a duplicate before persistence.save.
C17_EveryPageProcessed ==
    (spc = "done") => \A k \in DOMAIN responses : PageProcessed(k)

\* what holds of it: the pages of the responses that report a next page
C17_PagesBeforeLastProcessed ==
    (spc = "done") =>
        /\ \A k \in DOMAIN responses : responses[k].hasNextPage => PageProcessed(k)
        /\ Cardinality(Positions("collect")) = Len(responses) - 1
        /\ ~responses[Len(responses)].hasNextPage

\* C18 as claimed: over the runs of one crawler instance, runs ended by a
\* fetch failure included, whenever a run completes every identifier of the
\* Seen-ID Set has a listing record in a collection passed to
\* persistence.save by this or an earlier run.
C18_SeenIdsAreSaved ==
    (spc = "done") => ids_seen \subseteq saved_ids

\* what holds of it: the Seen-ID Set only grows, a saved identifier is a seen
\* one, and after a first run that completes the two sets are equal
C18_SeenOnlyGrows ==
    /\ [][ids_seen \subseteq ids_seen']_vars
    /\ [](saved_ids \subseteq ids_seen)
    /\ []((spc = "done" /\ n_search = Len(responses)) => ids_seen = saved_ids)

\* a run in which every fetch succeeds does not end by an exception
EndsWithSave == spc = "done" \/ search_raised = "FetchError"

\* C19 as claimed: provided every fetch succeeds and the search collaborator
\* eventually returns a pagination state with hasNextPage false, a run that
\* has its first response eventually calls persistence.save and returns.
C19_RunEndsWithSave == (spc = "while") ~> EndsWithSave

\* what holds of it: the same for a query that has no check-in or has a
\* check-out
C19_RunEndsWithSaveWhenDatesPaired ==
    (spc = "while" /\ ("checkin" \in DOMAIN url.variables => "checkout" \in DOMAIN url.variables))
        ~> EndsWithSave

\* and the requests of a run: one for the first response and one more for
\* each response that reports a next page, carrying its itemsOffset
C19_OneRequestPerNextPage ==
    /\ \A k \in 2..Cardinality(Positions("search")) :
            /\ responses[k - 1].hasNextPage
            /\ trace[NthPos("search", k)].arg.qs["itemsOffset"] = responses[k - 1].itemsOffset
    /\ (spc = "done") =>
            Cardinality(Positions("search"))
                = 1 + Cardinality({k \in DOMAIN responses : responses[k].hasNextPage})

\* the calendar scraper, beside a search crawler that is never run
InitCalendar == CalInit /\ SearchInit

SpecCalendar == InitCalendar /\ [][CalNext]_vars

\* the search crawler, beside a calendar scraper that is never run
InitSearch == SearchInit /\ CalInit /\ source = "elasticsearch" /\ index = <<>>

SpecSearch == InitSearch /\ [][SearchNext]_vars

\* a run, once called, goes on to its end: the code is sequential and every
\* fetch answers; when run is called again is up to the caller
SearchFairness ==
    /\ WF_vars(CollectListings)
    /\ WF_vars(SkipDuplicate)
    /\ WF_vars(GetReviews)
    /\ WF_vars(GetListing)
    /\ WF_vars(NextPage)
    /\ WF_vars(Save)

SpecSearchLive == InitSearch /\ [][SearchNext]_vars /\ SearchFairness
====
